---- MODULE Spec2Model ----
(***************************************************************************)
(* Model of the envelope crate: the content-addressed Store                *)
(* (src/src/store.rs), its binary serialization, the Index and the         *)
(* IndexedStore facade (src/src/index.rs) and the Envelope data model      *)
(* (src/src/envelope.rs, src/src/hash.rs).                                 *)
(*                                                                         *)
(* Representation.                                                         *)
(*  - A Rust String or Vec<u8> is a sequence of integers 0..255.           *)
(*  - A Hash256 is a record [kind, pre].  SHA-256 is modelled as a perfect *)
(*    (collision-free, deterministic) digest: Hash256_hash(b) is the       *)
(*    record of kind "sha" that carries its preimage b.  A Hash256 built   *)
(*    by from_bytes from 32 bytes that are not the bytes of one digest is  *)
(*    of kind "raw" and carries those bytes.                               *)
(*  - The value of the 32 bytes of a "sha" digest is not computed.  In a   *)
(*    buffer they are 32 symbolic bytes, written as integers from 256 up:  *)
(*    byte j of the digest numbered n is 256 + 32 * n + (j - 1).  The      *)
(*    digests that callers put into envelopes (type hashes, relationship   *)
(*    targets, previous) are numbered by DigestNumber.  Distinct digests   *)
(*    have distinct bytes, and no symbolic byte equals a concrete one.     *)
(*  - Option<T> is a record [some, val]; val is a fixed default for None.  *)
(*  - A HashMap<String, IndexValue> is a function from keys to values; the *)
(*    order in which the map is iterated is unspecified and is an input,   *)
(*    chosen nondeterministically, of every operation that iterates it.    *)
(***************************************************************************)
EXTENDS Integers, Sequences, FiniteSets, TLC

VARIABLES objects, index, log, last

vars == <<objects, index, log, last>>

----------------------------------------------------------------------------
(* Bounds of the model *)

MaxRels == 2
MaxPuts == 2
MaxOps == 2

----------------------------------------------------------------------------
(* hash.rs: Hash256 *)

HashLen == 32

NoDigest == [kind |-> "none", pre |-> <<>>]

Hash256_hash(data) == [kind |-> "sha", pre |-> data]

\* the digests that the envelopes of the tests and of examples/blog.rs
\* refer to: Hash256::hash of a one-byte name (b"A", b"P", b"x", b"y") and
\* BaseDigest, the digest Store::put returns for the first envelope stored
HashedNames == <<Hash256_hash(<<65>>), Hash256_hash(<<80>>),
                 Hash256_hash(<<120>>), Hash256_hash(<<121>>)>>

RECURSIVE BaseDigest

FirstSymbolic == 256

SymbolicBytes(n) == [j \in 1..HashLen |-> FirstSymbolic + HashLen * n + (j - 1)]

DigestNumber(h) ==
    IF \E n \in DOMAIN HashedNames : HashedNames[n] = h
    THEN (CHOOSE n \in DOMAIN HashedNames : HashedNames[n] = h) - 1
    ELSE CASE h = BaseDigest -> Len(HashedNames)

DigestOfNumber(n) ==
    IF n + 1 \in DOMAIN HashedNames THEN HashedNames[n + 1] ELSE BaseDigest

as_bytes(h) ==
    IF h.kind = "raw" THEN h.pre ELSE SymbolicBytes(DigestNumber(h))

from_bytes(arr) ==
    IF /\ arr[1] >= FirstSymbolic
       /\ arr[1] <= FirstSymbolic + HashLen * Len(HashedNames)
       /\ (arr[1] - FirstSymbolic) % HashLen = 0
       /\ \A j \in 1..HashLen : arr[j] = arr[1] + (j - 1)
    THEN DigestOfNumber((arr[1] - FirstSymbolic) \div HashLen)
    ELSE [kind |-> "raw", pre |-> arr]

----------------------------------------------------------------------------
(* envelope.rs: Option, Relationship, IndexValue, Envelope *)

NoneStr == [some |-> FALSE, val |-> <<>>]
SomeStr(s) == [some |-> TRUE, val |-> s]
NoneHash == [some |-> FALSE, val |-> NoDigest]
SomeHash(h) == [some |-> TRUE, val |-> h]
NoneI64 == [some |-> FALSE, val |-> 0]
SomeI64(v) == [some |-> TRUE, val |-> v]

Relationship_new(rel_type, target) == [rel_type |-> rel_type, target |-> target]

IVString(s) == [tag |-> "String", s |-> s, n |-> 0, b |-> FALSE, h |-> NoDigest]
IVInt64(v) == [tag |-> "Int64", s |-> <<>>, n |-> v, b |-> FALSE, h |-> NoDigest]
IVFloat64(v) == [tag |-> "Float64", s |-> <<>>, n |-> v, b |-> FALSE, h |-> NoDigest]
IVBool(v) == [tag |-> "Bool", s |-> <<>>, n |-> 0, b |-> v, h |-> NoDigest]
IVHash(v) == [tag |-> "Hash", s |-> <<>>, n |-> 0, b |-> FALSE, h |-> v]
IVTimestamp(v) == [tag |-> "Timestamp", s |-> <<>>, n |-> v, b |-> FALSE, h |-> NoDigest]

EmptyMap == [x \in {} |-> 0]

Envelope(type_hash, type_name, relationships, idx, previous, created_at, payload) ==
    [type_hash |-> type_hash, type_name |-> type_name,
     relationships |-> relationships, index |-> idx,
     previous |-> previous, created_at |-> created_at, payload |-> payload]

EnvelopeBuilder_build(type_hash, payload) ==
    Envelope(type_hash, NoneStr, <<>>, EmptyMap, NoneHash, NoneI64, payload)

----------------------------------------------------------------------------
(* Little-endian integers (u32::to_le_bytes, i64::to_le_bytes and back) *)

RECURSIVE ByteAt(_, _)
ByteAt(v, k) == IF k = 0 THEN v % 256 ELSE ByteAt(v \div 256, k - 1)

\* (n as u32).to_le_bytes(): the four low bytes of n
U32LE(n) == [j \in 1..4 |-> ByteAt(n, j - 1)]

\* i64::to_le_bytes: two's complement, eight bytes
I64LE(v) ==
    [j \in 1..8 |-> IF v >= 0 THEN ByteAt(v, j - 1)
                    ELSE 255 - ByteAt((-v) - 1, j - 1)]

RECURSIVE FromLE(_)
FromLE(cells) ==
    IF cells = <<>> THEN 0 ELSE Head(cells) + 256 * FromLE(Tail(cells))

RECURSIVE FromLEInv(_)
FromLEInv(cells) ==
    IF cells = <<>> THEN 0 ELSE (255 - Head(cells)) + 256 * FromLEInv(Tail(cells))

\* i64::from_le_bytes
I64FromLE(cells) ==
    IF cells[8] >= 128 THEN -(1 + FromLEInv(cells)) ELSE FromLE(cells)

\* String::from_utf8_lossy(..).to_string() on text of code points below
\* U+0080: an ASCII byte is kept, any other byte becomes U+FFFD (EF BF BD).
RECURSIVE from_utf8_lossy(_)
from_utf8_lossy(cells) ==
    IF cells = <<>> THEN <<>>
    ELSE (IF Head(cells) < 128 THEN <<Head(cells)>> ELSE <<239, 191, 189>>)
         \o from_utf8_lossy(Tail(cells))

----------------------------------------------------------------------------
(* store.rs: Store::serialize *)

RECURSIVE SerializeRels(_)
SerializeRels(rels) ==
    IF rels = <<>> THEN <<>>
    ELSE LET rel == Head(rels) IN
         U32LE(Len(rel.rel_type)) \o rel.rel_type \o as_bytes(rel.target)
         \o SerializeRels(Tail(rels))

RECURSIVE SerializeIndex(_, _)
SerializeIndex(idx, keys) ==
    IF keys = <<>> THEN <<>>
    ELSE LET key == Head(keys)
             value == idx[key].s
         IN  U32LE(Len(key)) \o key \o U32LE(Len(value)) \o value
             \o SerializeIndex(idx, Tail(keys))

IsStringKey(idx, k) == idx[k].tag = "String"

\* envelope.index.iter().filter_map(..): the keys with a String value, in
\* the order iter (a sequence of the map's keys) visits them
string_index(idx, iter) == SelectSeq(iter, LAMBDA k : IsStringKey(idx, k))

SerializeTypeName(type_name) ==
    IF type_name.some
    THEN U32LE(Len(type_name.val)) \o type_name.val
    ELSE U32LE(0)

\* faulty variant: previous is never written
SerializePrevious_absent(previous) == <<0>>

SerializePrevious(previous) ==
    IF previous.some THEN <<1>> \o as_bytes(previous.val) ELSE <<0>>

SerializeCreatedAt(created_at) ==
    IF created_at.some THEN <<1>> \o I64LE(created_at.val) ELSE <<0>>

\* iter: the order in which envelope.index.iter() yields the keys
Serialize(envelope, iter) ==
    as_bytes(envelope.type_hash)
    \o SerializeTypeName(envelope.type_name)
    \o U32LE(Len(envelope.relationships))
    \o SerializeRels(envelope.relationships)
    \o U32LE(Len(string_index(envelope.index, iter)))
    \o SerializeIndex(envelope.index, string_index(envelope.index, iter))
    \o SerializePrevious(envelope.previous)
    \o SerializeCreatedAt(envelope.created_at)
    \o U32LE(Len(envelope.payload))
    \o envelope.payload

----------------------------------------------------------------------------
(* store.rs: Store::deserialize.  A reader returns [ok, v, cur]; ok is     *)
(* FALSE when the slice it indexes lies outside the buffer (a panic).      *)

Oob(cur) == [ok |-> FALSE, v |-> 0, cur |-> cur]

read_u32(bytes, cur) ==
    IF cur + 4 > Len(bytes) THEN Oob(cur)
    ELSE [ok |-> TRUE, v |-> FromLE(SubSeq(bytes, cur + 1, cur + 4)), cur |-> cur + 4]

read_i64(bytes, cur) ==
    IF cur + 8 > Len(bytes) THEN Oob(cur)
    ELSE [ok |-> TRUE, v |-> I64FromLE(SubSeq(bytes, cur + 1, cur + 8)), cur |-> cur + 8]

read_hash(bytes, cur) ==
    IF cur + HashLen > Len(bytes) THEN Oob(cur)
    ELSE [ok |-> TRUE, v |-> from_bytes(SubSeq(bytes, cur + 1, cur + HashLen)),
          cur |-> cur + HashLen]

read_slice(bytes, cur, len) ==
    IF cur + len > Len(bytes) THEN Oob(cur)
    ELSE [ok |-> TRUE, v |-> SubSeq(bytes, cur + 1, cur + len), cur |-> cur + len]

read_string(bytes, cur) ==
    LET len == read_u32(bytes, cur) IN
    IF ~len.ok THEN Oob(cur)
    ELSE LET sl == read_slice(bytes, len.cur, len.v) IN
         IF ~sl.ok THEN Oob(cur)
         ELSE [ok |-> TRUE, v |-> from_utf8_lossy(sl.v), cur |-> sl.cur]

read_type_name(bytes, cur) ==
    LET len == read_u32(bytes, cur) IN
    IF ~len.ok THEN Oob(cur)
    ELSE IF len.v > 0
         THEN LET sl == read_slice(bytes, len.cur, len.v) IN
              IF ~sl.ok THEN Oob(cur)
              ELSE [ok |-> TRUE, v |-> SomeStr(from_utf8_lossy(sl.v)), cur |-> sl.cur]
         ELSE [ok |-> TRUE, v |-> NoneStr, cur |-> len.cur]

RECURSIVE read_relationships(_, _, _, _)
read_relationships(bytes, cur, count, acc) ==
    IF count = 0 THEN [ok |-> TRUE, v |-> acc, cur |-> cur]
    ELSE LET rel_type == read_string(bytes, cur) IN
         IF ~rel_type.ok THEN Oob(cur)
         ELSE LET target == read_hash(bytes, rel_type.cur) IN
              IF ~target.ok THEN Oob(cur)
              ELSE read_relationships(bytes, target.cur, count - 1,
                       Append(acc, Relationship_new(rel_type.v, target.v)))

MapInsert(m, k, v) == [x \in DOMAIN m \cup {k} |-> IF x = k THEN v ELSE m[x]]

RECURSIVE read_index(_, _, _, _)
read_index(bytes, cur, count, acc) ==
    IF count = 0 THEN [ok |-> TRUE, v |-> acc, cur |-> cur]
    ELSE LET key == read_string(bytes, cur) IN
         IF ~key.ok THEN Oob(cur)
         ELSE LET value == read_string(bytes, key.cur) IN
              IF ~value.ok THEN Oob(cur)
              ELSE read_index(bytes, value.cur, count - 1,
                       MapInsert(acc, key.v, IVString(value.v)))

read_previous(bytes, cur) ==
    IF cur + 1 > Len(bytes) THEN Oob(cur)
    ELSE IF bytes[cur + 1] = 1
         THEN LET h == read_hash(bytes, cur + 1) IN
              IF ~h.ok THEN Oob(cur)
              ELSE [ok |-> TRUE, v |-> SomeHash(h.v), cur |-> h.cur]
         ELSE [ok |-> TRUE, v |-> NoneHash, cur |-> cur + 1]

read_created_at(bytes, cur) ==
    IF cur + 1 > Len(bytes) THEN Oob(cur)
    ELSE IF bytes[cur + 1] = 1
         THEN LET ts == read_i64(bytes, cur + 1) IN
              IF ~ts.ok THEN Oob(cur)
              ELSE [ok |-> TRUE, v |-> SomeI64(ts.v), cur |-> ts.cur]
         ELSE [ok |-> TRUE, v |-> NoneI64, cur |-> cur + 1]

read_payload(bytes, cur) ==
    LET len == read_u32(bytes, cur) IN
    IF ~len.ok THEN Oob(cur)
    ELSE LET sl == read_slice(bytes, len.cur, len.v) IN
         IF ~sl.ok THEN Oob(cur)
         ELSE [ok |-> TRUE, v |-> sl.v, cur |-> sl.cur]

NoEnvelope == EnvelopeBuilder_build(NoDigest, <<>>)

Panic == [status |-> "Panic", env |-> NoEnvelope]
Ok(envelope) == [status |-> "Ok", env |-> envelope]
NotFound == [status |-> "NotFound", env |-> NoEnvelope]

Deserialize(bytes) ==
    LET type_hash == read_hash(bytes, 0) IN
    IF ~type_hash.ok THEN Panic ELSE
    LET type_name == read_type_name(bytes, type_hash.cur) IN
    IF ~type_name.ok THEN Panic ELSE
    LET rel_count == read_u32(bytes, type_name.cur) IN
    IF ~rel_count.ok THEN Panic ELSE
    LET relationships == read_relationships(bytes, rel_count.cur, rel_count.v, <<>>) IN
    IF ~relationships.ok THEN Panic ELSE
    LET idx_count == read_u32(bytes, relationships.cur) IN
    IF ~idx_count.ok THEN Panic ELSE
    LET idx == read_index(bytes, idx_count.cur, idx_count.v, EmptyMap) IN
    IF ~idx.ok THEN Panic ELSE
    LET previous == read_previous(bytes, idx.cur) IN
    IF ~previous.ok THEN Panic ELSE
    LET created_at == read_created_at(bytes, previous.cur) IN
    IF ~created_at.ok THEN Panic ELSE
    LET payload == read_payload(bytes, created_at.cur) IN
    IF ~payload.ok THEN Panic ELSE
    Ok(Envelope(type_hash.v, type_name.v, relationships.v, idx.v,
                previous.v, created_at.v, payload.v))

----------------------------------------------------------------------------
(* store.rs: Store *)

\* faulty variant: the insert replaces the whole map
objects_insert_replacing(objs, hash, bytes) == [x \in {hash} |-> bytes]

\* HashMap::insert(hash, bytes) on Store.objects
objects_insert(objs, hash, bytes) == MapInsert(objs, hash, bytes)

\* faulty variant: the key is the digest of the payload, not of the encoding
Store_put_payloadkey(objs, envelope, iter) ==
    LET bytes == Serialize(envelope, iter)
        hash == Hash256_hash(envelope.payload)
    IN  [objects |-> objects_insert(objs, hash, bytes), hash |-> hash]

\* Store::put: the new objects map and the digest returned
Store_put(objs, envelope, iter) ==
    LET bytes == Serialize(envelope, iter)
        hash == Hash256_hash(bytes)
    IN  [objects |-> objects_insert(objs, hash, bytes), hash |-> hash]

\* faulty variant: a missing digest is answered with an empty envelope
Store_get_default(objs, hash) ==
    IF hash \notin DOMAIN objs THEN Ok(NoEnvelope) ELSE Deserialize(objs[hash])

Store_get(objs, hash) ==
    IF hash \notin DOMAIN objs THEN NotFound ELSE Deserialize(objs[hash])

Store_contains(objs, hash) == hash \in DOMAIN objs

Store_len(objs) == Cardinality(DOMAIN objs)

Store_hashes(objs) == DOMAIN objs

----------------------------------------------------------------------------
(* index.rs: Index *)

Index_new ==
    [by_type |-> EmptyMap, by_string_field |-> EmptyMap,
     by_relationship |-> EmptyMap, references_to |-> EmptyMap]

\* map.entry(k).or_default().insert(hash) on a map of sets
EntryInsert(m, k, hash) ==
    MapInsert(m, k, (IF k \in DOMAIN m THEN m[k] ELSE {}) \cup {hash})

\* if let Some(set) = map.get_mut(k) { set.remove(hash) }
EntryRemove(m, k, hash) ==
    IF k \in DOMAIN m THEN MapInsert(m, k, m[k] \ {hash}) ELSE m

\* faulty variant: every variant is indexed, not only String
StringFields_all(envelope) ==
    {<<k, envelope.index[k].s>> : k \in DOMAIN envelope.index}

StringFields(envelope) ==
    {<<k, envelope.index[k].s>> : k \in {x \in DOMAIN envelope.index :
                                          envelope.index[x].tag = "String"}}

RECURSIVE InsertAll(_, _, _)
InsertAll(m, keys, hash) ==
    IF keys = {} THEN m
    ELSE LET k == CHOOSE x \in keys : TRUE
         IN  InsertAll(EntryInsert(m, k, hash), keys \ {k}, hash)

RECURSIVE RemoveAll(_, _, _)
RemoveAll(m, keys, hash) ==
    IF keys = {} THEN m
    ELSE LET k == CHOOSE x \in keys : TRUE
         IN  RemoveAll(EntryRemove(m, k, hash), keys \ {k}, hash)

\* for rel in &envelope.relationships:
\*   by_relationship.entry(rel_type).or_default().entry(target).or_default().insert(hash)
RECURSIVE RelInsertAll(_, _, _)
RelInsertAll(m, rels, hash) ==
    IF rels = <<>> THEN m
    ELSE LET rel == Head(rels)
             inner == IF rel.rel_type \in DOMAIN m THEN m[rel.rel_type] ELSE EmptyMap
         IN  RelInsertAll(MapInsert(m, rel.rel_type, EntryInsert(inner, rel.target, hash)),
                          Tail(rels), hash)

\* for rel in &envelope.relationships: references_to.entry(target).or_default().insert(hash)
RECURSIVE RefInsertAll(_, _, _)
RefInsertAll(m, rels, hash) ==
    IF rels = <<>> THEN m
    ELSE RefInsertAll(EntryInsert(m, Head(rels).target, hash), Tail(rels), hash)

RECURSIVE RelRemoveAll(_, _, _)
RelRemoveAll(m, rels, hash) ==
    IF rels = <<>> THEN m
    ELSE LET rel == Head(rels)
         IN  RelRemoveAll(IF rel.rel_type \in DOMAIN m
                          THEN MapInsert(m, rel.rel_type,
                                         EntryRemove(m[rel.rel_type], rel.target, hash))
                          ELSE m,
                          Tail(rels), hash)

RECURSIVE RefRemoveAll(_, _, _)
RefRemoveAll(m, rels, hash) ==
    IF rels = <<>> THEN m
    ELSE RefRemoveAll(EntryRemove(m, Head(rels).target, hash), Tail(rels), hash)

Index_add(idx, hash, envelope) ==
    [by_type |-> EntryInsert(idx.by_type, envelope.type_hash, hash),
     by_string_field |-> InsertAll(idx.by_string_field, StringFields(envelope), hash),
     by_relationship |-> RelInsertAll(idx.by_relationship, envelope.relationships, hash),
     references_to |-> RefInsertAll(idx.references_to, envelope.relationships, hash)]

\* faulty variant: references_to is not retracted
Index_remove_keeprefs(idx, hash, envelope) ==
    [by_type |-> EntryRemove(idx.by_type, envelope.type_hash, hash),
     by_string_field |-> RemoveAll(idx.by_string_field, StringFields(envelope), hash),
     by_relationship |-> RelRemoveAll(idx.by_relationship, envelope.relationships, hash),
     references_to |-> idx.references_to]

Index_remove(idx, hash, envelope) ==
    [by_type |-> EntryRemove(idx.by_type, envelope.type_hash, hash),
     by_string_field |-> RemoveAll(idx.by_string_field, StringFields(envelope), hash),
     by_relationship |-> RelRemoveAll(idx.by_relationship, envelope.relationships, hash),
     references_to |-> RefRemoveAll(idx.references_to, envelope.relationships, hash)]

Index_by_type(idx, type_hash) ==
    IF type_hash \in DOMAIN idx.by_type THEN idx.by_type[type_hash] ELSE {}

\* faulty variant: the lookup matches the field key only
Index_by_field_anyvalue(idx, field, value) ==
    UNION {idx.by_string_field[f] : f \in {x \in DOMAIN idx.by_string_field : x[1] = field}}

Index_by_field(idx, field, value) ==
    IF <<field, value>> \in DOMAIN idx.by_string_field
    THEN idx.by_string_field[<<field, value>>] ELSE {}

Index_references_to(idx, target) ==
    IF target \in DOMAIN idx.references_to THEN idx.references_to[target] ELSE {}

Index_by_relationship(idx, rel_type, target) ==
    IF rel_type \in DOMAIN idx.by_relationship
    THEN IF target \in DOMAIN idx.by_relationship[rel_type]
         THEN idx.by_relationship[rel_type][target] ELSE {}
    ELSE {}

----------------------------------------------------------------------------
(* index.rs: IndexedStore *)

\* faulty variant: the envelope is stored but not indexed
IndexedStore_put_noindex(objs, idx, envelope, iter) ==
    LET r == Store_put(objs, envelope, iter)
    IN  [objects |-> r.objects, index |-> idx, hash |-> r.hash]

\* IndexedStore::put: Store::put, then Index::add under the digest returned
IndexedStore_put(objs, idx, envelope, iter) ==
    LET r == Store_put(objs, envelope, iter)
    IN  [objects |-> r.objects, index |-> Index_add(idx, r.hash, envelope),
         hash |-> r.hash]

IndexedStore_get(objs, hash) == Store_get(objs, hash)

IndexedStore_contains(objs, hash) == Store_contains(objs, hash)

query_by_type(idx, type_hash) == Index_by_type(idx, type_hash)

query_by_field(idx, field, value) == Index_by_field(idx, field, value)

query_references_to(idx, target) == Index_references_to(idx, target)

----------------------------------------------------------------------------
(* The envelopes the callers build.  Text is written as its bytes.         *)

TypeA == HashedNames[1]
TypeP == HashedNames[2]
TargetX == HashedNames[3]
TargetY == HashedNames[4]

RelA == <<97>>
RelT == <<116>>
KeyK == <<107>>
KeyN == <<110>>
TextX == <<120>>
TextY == <<121>>

DefaultPayload == <<1, 2>>

\* Envelope::builder(type_hash, payload).build()
BaseEnvelope == EnvelopeBuilder_build(TypeA, DefaultPayload)

\* the digest Store::put returns for BaseEnvelope
BaseDigest == Hash256_hash(Serialize(BaseEnvelope, <<>>))

RelAtoms == {Relationship_new(RelA, TargetX), Relationship_new(RelT, TargetY)}

RelSeqs == UNION {[1..n -> RelAtoms] : n \in 1..MaxRels}

IndexKeys == {KeyK, KeyN}

IndexValues(key) ==
    IF key = KeyK
    THEN {IVString(TextX), IVString(TextY), IVInt64(42), IVFloat64(1), IVBool(TRUE),
          IVHash(TargetX), IVTimestamp(5)}
    ELSE {IVString(TextX)}

IndexMaps ==
    {m \in UNION {[K -> UNION {IndexValues(k) : k \in K}] : K \in SUBSET IndexKeys \ {{}}} :
        \A k \in DOMAIN m : m[k] \in IndexValues(k)}

\* builder calls applied to the base envelope, one kind at a time
WithTypeName == {[BaseEnvelope EXCEPT !.type_name = SomeStr(n)] : n \in {<<84>>, <<84, 84>>}}
WithRelationships == {[BaseEnvelope EXCEPT !.relationships = r] : r \in RelSeqs}
WithIndex == {[BaseEnvelope EXCEPT !.index = m] : m \in IndexMaps}
WithPrevious == {[BaseEnvelope EXCEPT !.previous = SomeHash(BaseDigest)]}
WithCreatedAt == {[BaseEnvelope EXCEPT !.created_at = SomeI64(t)] : t \in {1708523400, -2}}
WithPayload == {[BaseEnvelope EXCEPT !.payload = <<>>]}
WithType == {[BaseEnvelope EXCEPT !.type_hash = TypeP]}

\* the post of tests::test_indexed_store and the updated post of examples/blog.rs
Post ==
    [BaseEnvelope EXCEPT !.type_hash = TypeP,
                         !.index = [k \in {KeyK} |-> IVString(TextX)],
                         !.relationships = <<Relationship_new(RelA, TargetX)>>]
UpdatedPost ==
    [Post EXCEPT !.type_name = SomeStr(<<84>>), !.previous = SomeHash(BaseDigest),
                 !.created_at = SomeI64(1708523400)]

Envelopes ==
    {BaseEnvelope, Post, UpdatedPost} \cup WithType \cup WithTypeName
    \cup WithRelationships \cup WithIndex \cup WithPrevious \cup WithCreatedAt
    \cup WithPayload

\* the arguments of Index::add and Index::remove on a bare Index: the
\* envelopes that differ in what the Index reads, under two digests
IndexEnvelopes ==
    {BaseEnvelope} \cup WithType \cup WithRelationships
    \cup {e \in WithIndex : DOMAIN e.index = {KeyK}}

IndexDigests == {TargetX, TargetY}

\* the orders in which a map with key set K can be iterated
IterOrders(K) ==
    {f \in [1..Cardinality(K) -> K] : \A i, j \in DOMAIN f : f[i] = f[j] => i = j}

----------------------------------------------------------------------------
(* State: objects is Store.objects and index the Index of one             *)
(* IndexedStore; log is the set of calls made so far and last the most     *)
(* recent call on the Index.                                               *)

NoOp == [op |-> "none", hash |-> NoDigest, env |-> NoEnvelope, iter |-> <<>>]

Call(op, hash, envelope, iter) ==
    [op |-> op, hash |-> hash, env |-> envelope, iter |-> iter]

Init ==
    /\ objects = EmptyMap
    /\ index = Index_new
    /\ log = {}
    /\ last = NoOp

\* IndexedStore::put(envelope)
Put(envelope, iter) ==
    /\ \/ Cardinality(log) < MaxPuts
       \/ \E c \in log : c.env = envelope /\ c.iter = iter
    /\ LET r == IndexedStore_put(objects, index, envelope, iter) IN
       /\ objects' = r.objects
       /\ index' = r.index
       /\ log' = log \cup {Call("put", r.hash, envelope, iter)}
    /\ UNCHANGED last

Next == \E envelope \in Envelopes : \E iter \in IterOrders(DOMAIN envelope.index) :
            Put(envelope, iter)

Spec == Init /\ [][Next]_vars

\* Index::add(hash, envelope) on a bare Index
Add(hash, envelope) ==
    /\ \/ Cardinality(log) < MaxOps
       \/ Call("add", hash, envelope, <<>>) \in log
    /\ index' = Index_add(index, hash, envelope)
    /\ last' = Call("add", hash, envelope, <<>>)
    /\ log' = log \cup {last'}
    /\ UNCHANGED objects

\* Index::remove(hash, envelope) on a bare Index
Remove(hash, envelope) ==
    /\ \/ Cardinality(log) < MaxOps
       \/ Call("remove", hash, envelope, <<>>) \in log
    /\ index' = Index_remove(index, hash, envelope)
    /\ last' = Call("remove", hash, envelope, <<>>)
    /\ log' = log \cup {last'}
    /\ UNCHANGED objects

NextIndex ==
    \/ \E hash \in IndexDigests, envelope \in IndexEnvelopes : Add(hash, envelope)
    \/ \E hash \in IndexDigests, envelope \in IndexEnvelopes : Remove(hash, envelope)

SpecIndex == Init /\ [][NextIndex]_vars

----------------------------------------------------------------------------
(* Vocabulary of the properties *)

Puts == {c \in log : c.op = "put"}

\* the bytes Store::put stored for a call
Encoding(c) == Serialize(c.env, c.iter)

Count(seq, x) == Cardinality({j \in DOMAIN seq : seq[j] = x})

SameRelMultiset(r1, r2) ==
    /\ Len(r1) = Len(r2)
    /\ \A j \in DOMAIN r1 : Count(r1, r1[j]) = Count(r2, r1[j])

\* equal in every field but index and relationships
SameHeader(e1, e2) ==
    /\ e1.type_hash = e2.type_hash
    /\ e1.type_name = e2.type_name
    /\ e1.previous = e2.previous
    /\ e1.created_at = e2.created_at
    /\ e1.payload = e2.payload

\* C1 (as claimed): two envelopes equal in every field whose relationships
\* are permutations of each other are encoded to the same bytes, Store::put
\* returns the same digest for both and the store holds one entry for them.
C1_RelOrderIndependent ==
    \A c1, c2 \in Puts :
        (/\ SameHeader(c1.env, c2.env)
         /\ c1.env.index = c2.env.index
         /\ c1.iter = c2.iter
         /\ SameRelMultiset(c1.env.relationships, c2.env.relationships))
        => /\ Encoding(c1) = Encoding(c2)
           /\ c1.hash = c2.hash
           /\ (Puts = {c1, c2} => Store_len(objects) = 1)

\* C2 (as claimed): two envelopes with the same index map and equal other
\* fields get the same encoding and digest whatever order the map iterates
\* in, the index entries being written sorted ascending by key.
C2_IndexOrderIndependent ==
    \A c1, c2 \in Puts :
        c1.env = c2.env
        => /\ Encoding(c1) = Encoding(c2)
           /\ c1.hash = c2.hash

\* C3 (as claimed): Store::get(Store::put(E)) returns an envelope equal to E
\* field for field, up to the order of relationships and index entries.
C3_RoundTrip ==
    \A c \in Puts :
        LET r == Store_get(objects, c.hash) IN
        /\ r.status = "Ok"
        /\ SameHeader(r.env, c.env)
        /\ SameRelMultiset(r.env.relationships, c.env.relationships)
        /\ r.env.index = c.env.index

\* C4 (as claimed): two envelopes equal except for their index maps (a key
\* present in one only, or mapped to another value or variant) get two
\* different digests and the store holds two entries.
C4_IndexIsIdentity ==
    \A c1, c2 \in Puts :
        (/\ SameHeader(c1.env, c2.env)
         /\ c1.env.relationships = c2.env.relationships
         /\ c1.env.index # c2.env.index)
        => /\ c1.hash # c2.hash
           /\ (Puts = {c1, c2} => Store_len(objects) = 2)

\* the encodings put by the calls in a log
Encodings(calls) == {Encoding(c) : c \in calls}

\* C5: Store::put is idempotent.  A put keeps every entry of the store, and
\* len grows by one when the encoding put is new and by nothing when it was
\* put before (the store is then as it was); puts with equal encodings
\* return equal digests, and len is the number of distinct encodings put.
C5_PutStep ==
    /\ \A d \in DOMAIN objects : d \in DOMAIN objects' /\ objects'[d] = objects[d]
    /\ Store_len(objects') =
          Store_len(objects) + Cardinality(Encodings(log') \ Encodings(log))
    /\ \A c \in log' : c.hash \in DOMAIN objects' /\ objects'[c.hash] = Encoding(c)

C5_Dedup ==
    /\ \A c1, c2 \in Puts : Encoding(c1) = Encoding(c2) => c1.hash = c2.hash
    /\ Store_len(objects) = Cardinality(Encodings(Puts))

C5_PutIdempotent == [][C5_PutStep]_vars /\ []C5_Dedup

\* two different envelopes with one encoding were put: the store holds one entry
C5_Witness ==
    \E c1, c2 \in Puts :
        /\ c1.env # c2.env
        /\ Encoding(c1) = Encoding(c2)
        /\ Store_len(objects) = 1

\* C6: stored versions are immutable.  No step removes a digest from the
\* store or changes what Store::get returns for it, and an envelope B with
\* previous = dA gets a digest other than dA while get(dA) still returns A.
C6_GetStable ==
    \A d \in DOMAIN objects :
        /\ Store_contains(objects', d)
        /\ Store_get(objects', d) = Store_get(objects, d)

C6_VersionDistinct ==
    \A c1, c2 \in Puts :
        c2.env.previous = SomeHash(c1.hash)
        => /\ c2.hash # c1.hash
           /\ Store_contains(objects, c1.hash)
           /\ Store_get(objects, c1.hash) = Store_get(MapInsert(EmptyMap, c1.hash, Encoding(c1)), c1.hash)

C6_Immutable == [][C6_GetStable]_vars /\ []C6_VersionDistinct

\* A was stored, then B with previous = digest of A; get(dA) returns A
C6_Witness ==
    \E c1, c2 \in Puts :
        /\ c2.env.previous = SomeHash(c1.hash)
        /\ Store_get(objects, c1.hash) = Ok(c1.env)
        /\ Store_get(objects, c2.hash) = Ok(c2.env)

\* every digest found in one of the four index structures
IndexedDigests(idx) ==
    UNION {idx.by_type[t] : t \in DOMAIN idx.by_type}
    \cup UNION {idx.by_string_field[f] : f \in DOMAIN idx.by_string_field}
    \cup UNION {idx.references_to[t] : t \in DOMAIN idx.references_to}
    \cup UNION {UNION {idx.by_relationship[r][t] : t \in DOMAIN idx.by_relationship[r]} :
                    r \in DOMAIN idx.by_relationship}

\* the queries return hash for every indexed field of envelope
IndexedUnder(idx, hash, envelope) ==
    /\ hash \in query_by_type(idx, envelope.type_hash)
    /\ \A f \in StringFields(envelope) : hash \in query_by_field(idx, f[1], f[2])
    /\ \A j \in DOMAIN envelope.relationships :
          /\ hash \in query_references_to(idx, envelope.relationships[j].target)
          /\ hash \in Index_by_relationship(idx, envelope.relationships[j].rel_type,
                                            envelope.relationships[j].target)

\* C7: in the IndexedStore, every stored digest is returned by the type,
\* field and reference queries for its envelope (the one put and the one get
\* decodes), and every digest an index query returns is in the store.
C7_StoredIffIndexed ==
    /\ \A d \in Store_hashes(objects) :
          LET r == IndexedStore_get(objects, d) IN
          r.status = "Ok" /\ IndexedUnder(index, d, r.env)
    /\ \A c \in Puts :
          IndexedStore_contains(objects, c.hash) /\ IndexedUnder(index, c.hash, c.env)
    /\ IndexedDigests(index) \subseteq Store_hashes(objects)

\* two envelopes with String index fields or relationships are stored
C7_Witness ==
    \E c1, c2 \in Puts :
        /\ c1.hash # c2.hash
        /\ StringFields(c1.env) # {}
        /\ c2.env.relationships # <<>>
        /\ c1.hash \in query_by_type(index, c1.env.type_hash)
        /\ c2.hash \in query_references_to(index, c2.env.relationships[1].target)

\* the index built from scratch: Index::add(d, get(d)) for every stored d
RECURSIVE Rebuild(_, _, _)
Rebuild(objs, hashes, idx) ==
    IF hashes = {} THEN idx
    ELSE LET d == CHOOSE x \in hashes : TRUE
         IN  Rebuild(objs, hashes \ {d}, Index_add(idx, d, Store_get(objs, d).env))

RelTargets(idx) ==
    UNION {DOMAIN idx.by_relationship[r] : r \in DOMAIN idx.by_relationship}

SameAnswers(i1, i2) ==
    /\ \A t \in DOMAIN i1.by_type \cup DOMAIN i2.by_type :
          Index_by_type(i1, t) = Index_by_type(i2, t)
    /\ \A f \in DOMAIN i1.by_string_field \cup DOMAIN i2.by_string_field :
          Index_by_field(i1, f[1], f[2]) = Index_by_field(i2, f[1], f[2])
    /\ \A t \in DOMAIN i1.references_to \cup DOMAIN i2.references_to :
          Index_references_to(i1, t) = Index_references_to(i2, t)
    /\ \A r \in DOMAIN i1.by_relationship \cup DOMAIN i2.by_relationship :
          \A t \in RelTargets(i1) \cup RelTargets(i2) :
             Index_by_relationship(i1, r, t) = Index_by_relationship(i2, r, t)

\* C8: after any sequence of IndexedStore::put calls the maintained index
\* answers every query as the index rebuilt from the decoded store entries.
C8_IndexIsCache ==
    SameAnswers(index, Rebuild(objects, Store_hashes(objects), Index_new))

\* the store holds two entries, one put with a non-String index field (which
\* the decoded envelope lacks) and one with relationships
C8_Witness ==
    \E c1, c2 \in Puts :
        /\ c1.hash # c2.hash
        /\ \E k \in DOMAIN c1.env.index : c1.env.index[k].tag # "String"
        /\ c2.env.relationships # <<>>
        /\ Store_len(objects) = 2

\* C9: after Index::add(S, E) references_to(target) and
\* by_relationship(rel_type, target) contain S for every relationship of E;
\* after Index::remove(S, E) neither contains S.
C9_ReverseIndexSymmetry ==
    /\ last.op = "add" =>
          \A j \in DOMAIN last.env.relationships :
             LET rel == last.env.relationships[j] IN
             /\ last.hash \in Index_references_to(index, rel.target)
             /\ last.hash \in Index_by_relationship(index, rel.rel_type, rel.target)
    /\ last.op = "remove" =>
          \A j \in DOMAIN last.env.relationships :
             LET rel == last.env.relationships[j] IN
             /\ last.hash \notin Index_references_to(index, rel.target)
             /\ last.hash \notin Index_by_relationship(index, rel.rel_type, rel.target)

\* an envelope with a duplicated relationship pair was added, then removed
C9_Witness ==
    /\ last.op = "remove"
    /\ Call("add", last.hash, last.env, <<>>) \in log
    /\ Len(last.env.relationships) = 2
    /\ last.env.relationships[1] = last.env.relationships[2]
    /\ last.env.relationships[1].target \in DOMAIN index.references_to

\* C10: after Index::add calls only, by_field(k, v) returns d exactly when
\* some envelope added under d has index[k] = String(v).
C10_ByFieldExact ==
    (\A c \in log : c.op = "add") =>
        \A k \in IndexKeys :
        \A v \in {TextX, TextY, <<>>} \cup {f[2] : f \in DOMAIN index.by_string_field} :
        \A d \in IndexDigests \cup IndexedDigests(index) :
            d \in Index_by_field(index, k, v)
            <=> \E c \in log : /\ c.hash = d
                               /\ k \in DOMAIN c.env.index
                               /\ c.env.index[k] = IVString(v)

\* envelopes with a String, another String and a non-String value under the
\* same key were added; by_field returns the digest of the first only
C10_Witness ==
    /\ \A c \in log : c.op = "add"
    /\ \E c1, c2 \in log :
          /\ c1.hash # c2.hash
          /\ KeyK \in DOMAIN c1.env.index /\ c1.env.index[KeyK] = IVString(TextX)
          /\ KeyK \in DOMAIN c2.env.index /\ c2.env.index[KeyK].tag # "String"
          /\ Index_by_field(index, KeyK, TextX) = {c1.hash}

----------------------------------------------------------------------------
\* the digests put has returned so far
PutDigests == {c.hash : c \in Puts}

\* digests a caller may ask for: some were returned by a put in some
\* behaviours and by none in others, some are never returned by any put
ProbeDigests == {BaseDigest, Hash256_hash(Serialize(Post, <<KeyK>>)), TypeA, TargetX}

\* C11: NotFound contract.  Store::get(d) returns NotFound exactly when no
\* put has returned d, which is exactly when contains(d) is false; for such
\* a digest it never returns Ok (a default or empty envelope), and for every
\* digest a put returned it returns Ok.
C11_NotFoundContract ==
    \A d \in ProbeDigests \cup PutDigests \cup Store_hashes(objects) :
        /\ (Store_get(objects, d) = NotFound) <=> (d \notin PutDigests)
        /\ Store_contains(objects, d) <=> (d \in PutDigests)
        /\ (d \notin PutDigests) => Store_get(objects, d).status # "Ok"
        /\ (d \in PutDigests) => Store_get(objects, d).status = "Ok"

\* two envelopes were put, the base envelope was not: get answers Ok for
\* both digests returned and NotFound for the digest of the base envelope
C11_Witness ==
    /\ Cardinality(PutDigests) = 2
    /\ BaseDigest \notin PutDigests
    /\ Store_get(objects, BaseDigest) = NotFound
    /\ \A d \in PutDigests : Store_get(objects, d).status = "Ok"

----------------------------------------------------------------------------
(* envelope.rs: Envelope::hash, hash.rs: Hash256::hash_parts.              *)
(* Strings and byte slices are ordered as Rust orders them, byte by byte.  *)
(* The bytes of two digests are compared as their symbolic bytes are: the  *)
(* order SHA-256 gives them is not computed, and hash sorts in the same    *)
(* way whichever it is.                                                    *)

\* Ord for str and [u8]: a < b
RECURSIVE LexLess(_, _)
LexLess(a, b) ==
    IF b = <<>> THEN FALSE
    ELSE IF a = <<>> THEN TRUE
    ELSE IF Head(a) # Head(b) THEN Head(a) < Head(b)
    ELSE LexLess(Tail(a), Tail(b))

\* (&a.rel_type, a.target.as_bytes()) < (&b.rel_type, b.target.as_bytes())
RelLess(a, b) ==
    \/ LexLess(a.rel_type, b.rel_type)
    \/ a.rel_type = b.rel_type /\ LexLess(as_bytes(a.target), as_bytes(b.target))

\* one step of the stable sort of rels: x goes before the first greater one
RECURSIVE InsertRel(_, _)
InsertRel(sorted, x) ==
    IF sorted = <<>> THEN <<x>>
    ELSE IF RelLess(x, Head(sorted)) THEN <<x>> \o sorted
    ELSE <<Head(sorted)>> \o InsertRel(Tail(sorted), x)

RECURSIVE SortRels(_, _)
SortRels(rels, acc) ==
    IF rels = <<>> THEN acc ELSE SortRels(Tail(rels), InsertRel(acc, Head(rels)))

\* faulty variant: the relationships are hashed in the order they were added
sort_rels_unsorted(rels) == rels

\* rels.sort_by(..)
sort_rels(rels) == SortRels(rels, <<>>)

\* one step of the stable sort of idx by key
RECURSIVE InsertKey(_, _)
InsertKey(sorted, x) ==
    IF sorted = <<>> THEN <<x>>
    ELSE IF LexLess(x, Head(sorted)) THEN <<x>> \o sorted
    ELSE <<Head(sorted)>> \o InsertKey(Tail(sorted), x)

RECURSIVE SortKeys(_, _)
SortKeys(keys, acc) ==
    IF keys = <<>> THEN acc ELSE SortKeys(Tail(keys), InsertKey(acc, Head(keys)))

\* idx.sort_by_key(|(k, _)| *k), on the keys in the order iter yields them
sort_idx(iter) == SortKeys(iter, <<>>)

RECURSIVE RelParts(_)
RelParts(rels) ==
    IF rels = <<>> THEN <<>>
    ELSE <<Head(rels).rel_type, as_bytes(Head(rels).target)>> \o RelParts(Tail(rels))

\* the key of every entry is pushed, the value of a String entry only
RECURSIVE IndexParts(_, _)
IndexParts(idx, keys) ==
    IF keys = <<>> THEN <<>>
    ELSE LET key == Head(keys) IN
         (IF idx[key].tag = "String" THEN <<key, idx[key].s>> ELSE <<key>>)
         \o IndexParts(idx, Tail(keys))

\* the parts Envelope::hash pushes, in order
HashParts(envelope, iter) ==
    <<as_bytes(envelope.type_hash)>>
    \o RelParts(sort_rels(envelope.relationships))
    \o IndexParts(envelope.index, sort_idx(iter))
    \o <<envelope.payload>>

\* what the hasher has been fed after hasher.update(part) for every part
RECURSIVE Updates(_)
Updates(parts) == IF parts = <<>> THEN <<>> ELSE Head(parts) \o Updates(Tail(parts))

hash_parts(parts) == Hash256_hash(Updates(parts))

\* iter: the order in which envelope.index.iter() yields the keys
Envelope_hash(envelope, iter) == hash_parts(HashParts(envelope, iter))

----------------------------------------------------------------------------
(* Envelope::hash called on the envelopes callers build *)

KeyKX == <<107, 120>>
TextXX == <<120, 120>>

\* tests::test_envelope_hash_deterministic: two index entries, here with two
\* relationships added in either order
HashPosts ==
    {[Post EXCEPT !.index = [k \in IndexKeys |-> IVString(TextX)], !.relationships = r] :
        r \in {q \in RelSeqs : Len(q) = 2 /\ q[1] # q[2]}}

\* envelopes whose text meets a field boundary: {"k": "xx"} and {"kx": "x"},
\* and {"k": [120, 1]} before the payload [2]
BoundaryEnvelopes ==
    {[BaseEnvelope EXCEPT !.index = [k \in {KeyK} |-> IVString(TextXX)]],
     [BaseEnvelope EXCEPT !.index = [k \in {KeyKX} |-> IVString(TextX)]],
     [BaseEnvelope EXCEPT !.index = [k \in {KeyK} |-> IVString(<<120, 1>>)],
                          !.payload = <<2>>]}

HashEnvelopes ==
    {BaseEnvelope, Post} \cup WithType \cup WithRelationships \cup WithIndex
    \cup WithPayload \cup WithCreatedAt \cup HashPosts \cup BoundaryEnvelopes

\* Envelope::hash(&envelope)
Hash(envelope, iter) ==
    /\ \/ Cardinality(log) < MaxOps
       \/ \E c \in log : c.op = "hash" /\ c.env = envelope /\ c.iter = iter
    /\ last' = Call("hash", Envelope_hash(envelope, iter), envelope, iter)
    /\ log' = log \cup {last'}
    /\ UNCHANGED <<objects, index>>

NextHash == \E envelope \in HashEnvelopes : \E iter \in IterOrders(DOMAIN envelope.index) :
                Hash(envelope, iter)

SpecHash == Init /\ [][NextHash]_vars

Hashes == {c \in log : c.op = "hash"}

\* C12: Envelope::hash is independent of insertion order.  Two envelopes
\* with equal type_hash and payload, index maps holding the same entries
\* (iterated in any order) and relationships that are the same multiset (in
\* any sequence) have the same hash.
C12_HashOrderIndependent ==
    \A c1, c2 \in Hashes :
        (/\ c1.env.type_hash = c2.env.type_hash
         /\ c1.env.payload = c2.env.payload
         /\ c1.env.index = c2.env.index
         /\ SameRelMultiset(c1.env.relationships, c2.env.relationships))
        => c1.hash = c2.hash

\* hash was called on two envelopes whose relationships were added in
\* different orders and whose two-entry index maps iterate in different
\* orders, and returned one value
C12_Witness ==
    \E c1, c2 \in Hashes :
        /\ c1.env.relationships # c2.env.relationships
        /\ SameRelMultiset(c1.env.relationships, c2.env.relationships)
        /\ c1.env.index = c2.env.index
        /\ Len(c1.iter) = 2
        /\ c1.iter # c2.iter
        /\ c1.hash = c2.hash

----------------------------------------------------------------------------
(* Store::deserialize called on buffers that serialize did not write *)

\* the envelopes whose encodings are cut or altered, with the order their
\* index maps are iterated in
DecodedEnvelopes == {BaseEnvelope, Post, UpdatedPost}

ValidBuffer(envelope) == Serialize(envelope, IF envelope.index = EmptyMap THEN <<>> ELSE <<KeyK>>)

\* the proper prefixes of a buffer
Truncations(buf) == {SubSeq(buf, 1, n) : n \in 0..(Len(buf) - 1)}

\* buf with the u32 at offset replaced by v
PatchU32(buf, offset, v) ==
    SubSeq(buf, 1, offset) \o U32LE(v) \o SubSeq(buf, offset + 5, Len(buf))

\* where serialize writes the relationship count and the payload length
RelCountOffset(envelope) == HashLen + Len(SerializeTypeName(envelope.type_name))
PayloadLenOffset(envelope) == Len(ValidBuffer(envelope)) - Len(envelope.payload) - 4

\* a relationship count one above the relationships that follow
InflatedRelCount(envelope) ==
    PatchU32(ValidBuffer(envelope), RelCountOffset(envelope), Len(envelope.relationships) + 1)

\* a payload length one above the bytes that remain
InflatedPayloadLen(envelope) ==
    PatchU32(ValidBuffer(envelope), PayloadLenOffset(envelope), Len(envelope.payload) + 1)

TruncatedBuffers == UNION {Truncations(ValidBuffer(e)) : e \in DecodedEnvelopes}

OverlongBuffers ==
    {InflatedRelCount(e) : e \in {BaseEnvelope, Post}}
    \cup {InflatedPayloadLen(e) : e \in DecodedEnvelopes}

MalformedBuffers == TruncatedBuffers \cup OverlongBuffers

DecodeInputs == {ValidBuffer(e) : e \in DecodedEnvelopes} \cup MalformedBuffers

\* the record of a call of deserialize: its argument and how it ended
DecodeCall(bytes) ==
    LET r == Deserialize(bytes) IN
    [op |-> "deserialize", bytes |-> bytes, status |-> r.status, env |-> r.env]

\* Store::deserialize(bytes)
Decode(bytes) ==
    /\ last' = DecodeCall(bytes)
    /\ UNCHANGED <<objects, index, log>>

NextDecode == \E bytes \in DecodeInputs : Decode(bytes)

SpecDecode == Init /\ [][NextDecode]_vars

\* C13 (as claimed): decoding a truncated or malformed buffer (a proper
\* prefix of a valid encoding, or one whose count or length prefix exceeds
\* the remaining bytes) ends with a decoding error returned as a value: it
\* neither aborts (panics) nor returns an envelope.
C13_MalformedIsError ==
    (last.op = "deserialize" /\ last.bytes \in MalformedBuffers)
    => last.status \notin {"Panic", "Ok"}

----------------------------------------------------------------------------
\* C14: store key invariant.  After any sequence of puts every entry
\* (d, bytes) of the store has d = Hash256::hash(bytes), bytes is the
\* encoding of an envelope that was put and whose put returned d, and len is
\* the number of distinct digests put has returned.
C14_StoreKeyInvariant ==
    /\ \A d \in Store_hashes(objects) :
          /\ d = Hash256_hash(objects[d])
          /\ \E c \in Puts : objects[d] = Encoding(c) /\ c.hash = d
    /\ Store_len(objects) = Cardinality(PutDigests)

\* two puts of envelopes with different payloads returned two digests, each
\* the key of the bytes of its envelope
C14_Witness ==
    \E c1, c2 \in Puts :
        /\ c1.env.payload # c2.env.payload
        /\ Store_hashes(objects) = {c1.hash, c2.hash}
        /\ objects[c1.hash] = Encoding(c1)
        /\ objects[c2.hash] = Encoding(c2)
        /\ Store_len(objects) = 2

----------------------------------------------------------------------------
\* C15 (as claimed): the two identities never diverge.  For any two
\* envelopes put, Envelope::hash returns the same value for both exactly
\* when Store::put returned the same digest for both; envelopes that differ
\* only in previous, created_at or type_name are told apart by both
\* functions or by neither.
C15_IdentitiesAgree ==
    \A c1, c2 \in Puts :
        (Envelope_hash(c1.env, c1.iter) = Envelope_hash(c2.env, c2.iter))
        <=> (c1.hash = c2.hash)

----------------------------------------------------------------------------
\* the bytes Envelope::hash feeds to the hasher for a call
HashInput(c) == Updates(HashParts(c.env, c.iter))

\* C16 (as claimed): the bytes fed to hash_parts determine the hashed
\* fields.  Two envelopes that differ in type_hash, in the multiset of
\* relationships, in the String index entries or in the payload feed
\* different bytes to the hasher, and so get different hashes.
C16_HashInputInjective ==
    \A c1, c2 \in Hashes :
        (\/ c1.env.type_hash # c2.env.type_hash
         \/ ~SameRelMultiset(c1.env.relationships, c2.env.relationships)
         \/ StringFields(c1.env) # StringFields(c2.env)
         \/ c1.env.payload # c2.env.payload)
        => (HashInput(c1) # HashInput(c2) /\ c1.hash # c2.hash)

====
